---------------------------- MODULE Spec2Model ----------------------------
(***************************************************************************)
(* A model of phpmyadmin_sql_backup.py: download_sql_backup drives the      *)
(* phpMyAdmin login and export forms over one HTTP session and saves the    *)
(* streamed dump under a collision-safe file name.                          *)
(*                                                                          *)
(* Strings that the program takes apart or puts together (file names,       *)
(* paths, the Content-Disposition header, the exclusion list) are sequences *)
(* of one-character strings.  HTML documents are records of the elements    *)
(* the program's XPath queries look at.                                     *)
(***************************************************************************)
EXTENDS Integers, Sequences, FiniteSets, TLC

(***************************************************************************)
(* Bounds of the model.                                                     *)
(***************************************************************************)
\* how many numbered alternatives stem_(k)ext may already exist on disk
MaxExisting == 2
\* how many chunks the streamed response body may hold
MaxChunks == 2

(***************************************************************************)
(* Strings as sequences of characters.                                      *)
(***************************************************************************)
Range(s) == {s[i] : i \in 1..Len(s)}

\* str.rfind for a single character: the last 1-based index, 0 when absent
RFind(s, c) ==
    LET hits == {i \in 1..Len(s) : s[i] = c}
    IN  IF hits = {} THEN 0 ELSE CHOOSE i \in hits : \A j \in hits : j <= i

\* str.startswith / str.endswith for a single character
StartsWith(s, c) == Len(s) > 0 /\ s[1] = c
EndsWith(s, c) == Len(s) > 0 /\ s[Len(s)] = c

\* the decimal digits of a natural number, as f'{n}' formats it
RECURSIVE Digits(_)
Digits(n) ==
    LET d == <<"0", "1", "2", "3", "4", "5", "6", "7", "8", "9">>
    IN  IF n < 10 THEN <<d[n + 1]>> ELSE Digits(n \div 10) \o <<d[(n % 10) + 1]>>

\* a number zero-padded to a width, as strftime prints a field
RECURSIVE ZeroPad(_, _)
ZeroPad(s, width) == IF Len(s) >= width THEN s ELSE ZeroPad(<<"0">> \o s, width)

\* str.split(',') : the pieces between commas, empty pieces included
RECURSIVE split(_, _)
split(s, sep) ==
    LET hits == {i \in 1..Len(s) : s[i] = sep}
    IN  IF hits = {} THEN <<s>>
        ELSE LET i == CHOOSE k \in hits : \A j \in hits : k <= j
             IN  <<SubSeq(s, 1, i - 1)>> \o split(SubSeq(s, i + 1, Len(s)), sep)

\* os.path.splitext (posixpath): the extension starts at the last dot of the
\* last path component, unless that component has only leading dots before it
splitext(p) ==
    LET sepIndex == RFind(p, "/")
        dotIndex == RFind(p, ".")
    IN  IF dotIndex > sepIndex
           /\ \E i \in (sepIndex + 1)..(dotIndex - 1) : p[i] # "."
        THEN <<SubSeq(p, 1, dotIndex - 1), SubSeq(p, dotIndex, Len(p))>>
        ELSE <<p, <<>>>>

\* os.path.join (posixpath) of two components
join(a, b) ==
    IF StartsWith(b, "/") THEN b
    ELSE IF a = <<>> \/ EndsWith(a, "/") THEN a \o b
    ELSE a \o <<"/">> \o b

\* datetime.strftime for the directives the default prefix format uses; the
\* clock is a record of the UTC fields
Directive(c, now) ==
    CASE c = "Y" -> ZeroPad(Digits(now.Y), 4)
      [] c = "m" -> ZeroPad(Digits(now.m), 2)
      [] c = "d" -> ZeroPad(Digits(now.d), 2)
      [] c = "H" -> ZeroPad(Digits(now.H), 2)
      [] c = "M" -> ZeroPad(Digits(now.M), 2)
      [] c = "S" -> ZeroPad(Digits(now.S), 2)
      [] c = "%" -> <<"%">>
      [] OTHER   -> <<"%", c>>

RECURSIVE strftime(_, _)
strftime(fmt, now) ==
    IF fmt = <<>> THEN <<>>
    ELSE IF fmt[1] = "%" /\ Len(fmt) >= 2
         THEN Directive(fmt[2], now) \o strftime(SubSeq(fmt, 3, Len(fmt)), now)
         ELSE <<fmt[1]>> \o strftime(Tail(fmt), now)

DEFAULT_PREFIX_FORMAT ==
    <<"%", "Y", "-", "%", "m", "-", "%", "d", "-", "-", "%", "H", "-",
      "%", "M", "-", "%", "S", "-", "U", "T", "C", "_">>

(***************************************************************************)
(* CONTENT_DISPOSITION_FILENAME_RE = ^.*filename="(?P<filename>[^"]+)".*$   *)
(***************************************************************************)
FilenameLit == <<"f", "i", "l", "e", "n", "a", "m", "e", "=", "\"">>

\* the maximal run of non-quote characters starting at index i
RECURSIVE NonQuoteRun(_, _)
NonQuoteRun(h, i) ==
    IF i > Len(h) \/ h[i] = "\"" THEN <<>> ELSE <<h[i]>> \o NonQuoteRun(h, i + 1)

\* mutant: the pattern with [^"]* in place of [^"]+
MatchesAt_star(h, i) ==
    LET j   == i + Len(FilenameLit)
        run == NonQuoteRun(h, j)
    IN  /\ i + Len(FilenameLit) - 1 <= Len(h)
        /\ SubSeq(h, i, j - 1) = FilenameLit
        /\ j + Len(run) <= Len(h)
        /\ h[j + Len(run)] = "\""

\* the regex matches with the literal filename=" starting at index i
MatchesAt(h, i) ==
    LET j   == i + Len(FilenameLit)
        run == NonQuoteRun(h, j)
    IN  /\ i + Len(FilenameLit) - 1 <= Len(h)
        /\ SubSeq(h, i, j - 1) = FilenameLit
        /\ Len(run) >= 1
        /\ j + Len(run) <= Len(h)
        /\ h[j + Len(run)] = "\""

MatchStarts(h) == {i \in 1..Len(h) : MatchesAt(h, i)}

\* re.match(...) is not None
re_match(h) == MatchStarts(h) # {}

\* re_match.group('filename'): the leading .* is greedy, so the last match wins
group_filename(h) ==
    LET i == CHOOSE k \in MatchStarts(h) : \A j \in MatchStarts(h) : j <= k
    IN  NonQuoteRun(h, i + Len(FilenameLit))


(***************************************************************************)
(* Short names for the strings of the model.                                *)
(***************************************************************************)
sql == <<"s", "q", "l">>
none == <<"n", "o", "n", "e">>
gzip == <<"g", "z", "i", "p">>
server_template == <<"@", "S", "E", "R", "V", "E", "R", "@">>
structure_and_data ==
    <<"s", "t", "r", "u", "c", "t", "u", "r", "e", "_", "a", "n", "d", "_",
      "d", "a", "t", "a">>

\* an attribute the element does not carry (lxml's .get returns None)
NoAttr == "<no attribute>"

(***************************************************************************)
(* URLs.  A URL is [host, path]; a reference read from a page has an empty  *)
(* host when it is relative.  A path is a sequence of tokens, the markers   *)
(* the program searches for being tokens of their own.                      *)
(***************************************************************************)
LoginUrl == [host |-> "http://pma", path |-> <<"index.php">>]

\* urllib.parse.urljoin: an absolute reference stands, an empty one yields the
\* base, a relative one replaces the base's last segment
urljoin(base, ref) ==
    IF ref.host # "" THEN ref
    ELSE IF ref.path = <<>> THEN base
    ELSE [host |-> base.host, path |-> ref.path]

\* substring in href, for the marker substrings
contains(href, substring) == substring \in Range(href.path)

RECURSIVE Flatten(_)
Flatten(ss) == IF ss = <<>> THEN <<>> ELSE ss[1] \o Flatten(Tail(ss))

(***************************************************************************)
(* Documents: [forms, links, selects].                                      *)
(*   form   = [id, name, has_action, action, inputs]                        *)
(*   input  = [type, name, has_value, value]  (name may be NoAttr)          *)
(*   link   = [href, topmenu]      (topmenu: inside the element id=topmenu) *)
(*   select = [name, options]      (options: the option values, in order)   *)
(***************************************************************************)
NoDoc == [forms |-> <<>>, links |-> <<>>, selects |-> <<>>]

\* the @action values of a node list of forms
ActionsOf(forms) ==
    LET has(f) == f.has_action
        with_action == SelectSeq(forms, has)
    IN  [i \in 1..Len(with_action) |-> with_action[i].action]

\* //form[@id='login_form']/@action
xpath_login_form_action(tree) ==
    LET which(f) == f.id = "login_form" IN ActionsOf(SelectSeq(tree.forms, which))

\* mutant: the action of any form of the page, //form/@action
xpath_any_form_action(tree) == ActionsOf(tree.forms)

\* //form[@name='dump']/@action
xpath_dump_form_action(tree) ==
    LET which(f) == f.name = "dump" IN ActionsOf(SelectSeq(tree.forms, which))

\* //input[@type='hidden'] below the forms of a node list
HiddenInputsOf(forms) ==
    LET hidden(i) == i.type = "hidden"
    IN  Flatten([k \in 1..Len(forms) |-> SelectSeq(forms[k].inputs, hidden)])

\* mutant: every input of the login form, //form[@id='login_form']//input
xpath_login_all_inputs(tree) ==
    LET which(f) == f.id = "login_form"
        forms == SelectSeq(tree.forms, which)
    IN  Flatten([k \in 1..Len(forms) |-> forms[k].inputs])

\* //form[@id='login_form']//input[@type='hidden']
xpath_login_hidden_inputs(tree) ==
    LET which(f) == f.id = "login_form" IN HiddenInputsOf(SelectSeq(tree.forms, which))

\* //form[@name='dump']//input[@type='hidden']
xpath_dump_hidden_inputs(tree) ==
    LET which(f) == f.name = "dump" IN HiddenInputsOf(SelectSeq(tree.forms, which))

\* //a/@href
xpath_hrefs(tree) == [i \in 1..Len(tree.links) |-> tree.links[i].href]

\* id('topmenu')//a[contains(@href, marker)]/@href
xpath_topmenu_hrefs(tree, marker) ==
    LET hit(l) == l.topmenu /\ contains(l.href, marker)
        hits == SelectSeq(tree.links, hit)
    IN  [i \in 1..Len(hits) |-> hits[i].href]

\* //select[@name='db_select[]']/option/@value
xpath_db_options(tree) ==
    LET which(sel) == sel.name = "db_select[]"
        selects == SelectSeq(tree.selects, which)
    IN  Flatten([i \in 1..Len(selects) |-> selects[i].options])

target_substrings ==
    <<"frame_content", "server_export.php", "index.php?route=/server/export">>

\* mutant: only the links of the top menu are looked at
is_login_successful_topmenu_only(tree) ==
    \E i \in 1..Len(target_substrings) :
        xpath_topmenu_hrefs(tree, target_substrings[i]) # <<>>

\* is_login_successful: any(substring in href) over product(substrings, hrefs)
is_login_successful(tree) ==
    LET hrefs == xpath_hrefs(tree)
    IN  \E i \in 1..Len(target_substrings), j \in 1..Len(hrefs) :
            contains(hrefs[j], target_substrings[i])

(***************************************************************************)
(* Form data: a dict, modelled as a function from its keys to the sequence  *)
(* of values sent for the key (a list value sends one pair per item, a      *)
(* string value one pair).                                                  *)
(***************************************************************************)
Put(fd, k, v) == [x \in (DOMAIN fd) \cup {k} |-> IF x = k THEN v ELSE fd[x]]

\* the loop over the hidden inputs: form_data[name] = value when name is truthy
RECURSIVE AddHidden(_, _)
AddHidden(fd, inputs) ==
    IF inputs = <<>> THEN fd
    ELSE LET name  == inputs[1].name
             value == IF inputs[1].has_value THEN inputs[1].value ELSE <<>>
         IN  AddHidden(IF name # NoAttr /\ name # "" THEN Put(fd, name, <<value>>) ELSE fd,
                       Tail(inputs))


(***************************************************************************)
(* The inputs of a run: what the server may answer.                         *)
(***************************************************************************)
\* response.status_code
Statuses == {200, 500}

Rel(path) == [host |-> "", path |-> path]
Hidden(name, value) ==
    [type |-> "hidden", name |-> name, has_value |-> TRUE, value |-> value]
HiddenNoValue(name) ==
    [type |-> "hidden", name |-> name, has_value |-> FALSE, value |-> <<>>]
Visible(type, name, value) ==
    [type |-> type, name |-> name, has_value |-> TRUE, value |-> value]
Link(path, topmenu) == [href |-> Rel(path), topmenu |-> topmenu]

token == <<"t", "k">>

\* a login page as phpMyAdmin serves it
LoginPageFull ==
    [forms |-> << [id |-> "login_form", name |-> "login_form", has_action |-> TRUE,
                   action |-> Rel(<<"login.php">>),
                   inputs |-> << Hidden("token", token),
                                 HiddenNoValue("set_session"),
                                 Visible("text", "pma_username", <<>>),
                                 Visible("text", "pma_servername", <<"l">>),
                                 Hidden(NoAttr, token) >>] >>,
     links |-> <<>>, selects |-> <<>>]
\* a page without the login form (another form only)
LoginPageNoForm ==
    [forms |-> << [id |-> "search", name |-> "search", has_action |-> TRUE,
                   action |-> Rel(<<"search.php">>),
                   inputs |-> << Hidden("q", token) >>] >>,
     links |-> <<>>, selects |-> <<>>]
\* a login form without an action attribute, one hidden input named as a
\* credential field
LoginPageBare ==
    [forms |-> << [id |-> "login_form", name |-> "login_form", has_action |-> FALSE,
                   action |-> Rel(<<>>),
                   inputs |-> << Hidden("pma_password", <<"e">>) >>] >>,
     links |-> <<>>, selects |-> <<>>]
LoginDocs == {LoginPageFull, LoginPageNoForm, LoginPageBare}

LegacyLink(topmenu) == Link(<<"server_export.php", "?token=tk">>, topmenu)
ModernLink(topmenu) == Link(<<"index.php?route=/server/export", "&lang=en">>, topmenu)
PageOf(links) == [forms |-> <<>>, links |-> links, selects |-> <<>>]
PostLoginDocs ==
    { PageOf(<<LegacyLink(TRUE)>>),
      PageOf(<<ModernLink(TRUE)>>),
      PageOf(<<ModernLink(TRUE), LegacyLink(TRUE)>>),
      PageOf(<<Link(<<"index.php?", "frame_content">>, FALSE)>>),
      PageOf(<<LegacyLink(FALSE)>>),
      PageOf(<<Link(<<"logout.php">>, TRUE)>>),
      PageOf(<<>>) }

DumpForm(inputs) ==
    [id |-> "dump", name |-> "dump", has_action |-> TRUE,
     action |-> Rel(<<"export.php">>), inputs |-> inputs]
DbSelect(options) == [name |-> "db_select[]", options |-> options]
ExportDocs ==
    { \* the page as phpMyAdmin serves it
      [forms |-> <<DumpForm(<<Hidden("token", token)>>)>>, links |-> <<>>,
       selects |-> <<DbSelect(<< <<"a">>, <<"b">>, <<"c">> >>)>>],
      \* no database multi-select
      [forms |-> <<DumpForm(<<Hidden("token", token)>>)>>, links |-> <<>>,
       selects |-> <<>>],
      \* no form named dump, another form only
      [forms |-> << [id |-> "search", name |-> "search", has_action |-> TRUE,
                     action |-> Rel(<<"search.php">>),
                     inputs |-> << Hidden("q", token) >>] >>,
       links |-> <<>>,
       selects |-> <<DbSelect(<< <<"a">>, <<"b">> >>)>>],
      \* hidden inputs of the dump form named as fields the program sets
      [forms |-> <<DumpForm(<<Hidden("db_select[]", <<"x">>),
                              Hidden("compression", <<"z", "i", "p">>)>>)>>,
       links |-> <<>>,
       selects |-> <<DbSelect(<< <<"a">>, <<"b">> >>)>>] }

\* values of the Content-Disposition header of the export response; the empty
\* one stands for a response without the header (headers.get(..., ''))
Attachment == <<"a", "t", "t", ";", " ">>
Quoted(name) == FilenameLit \o name \o <<"\"">>
Headers ==
    { <<>>,
      Attachment,
      Attachment \o Quoted(<<"a", ".", "s">>),
      Attachment \o SubSeq(FilenameLit, 1, 9) \o <<"a", ".", "s">>,
      Attachment \o Quoted(<<>>),
      Attachment \o FilenameLit \o <<"a", ".", "s">>,
      Attachment \o Quoted(<<"a">>),
      Quoted(<<"b">>) \o <<";">> \o Quoted(<<"a", ".", "s">>) \o <<";">>,
      \* a header without a file name that repeats a posted field
      Attachment \o <<"p", "w">> }

(***************************************************************************)
(* The arguments of download_sql_backup.                                    *)
(***************************************************************************)
Given(v) == [given |-> TRUE, value |-> v]
NotGiven == [given |-> FALSE, value |-> <<>>]

Now == [Y |-> 2024, m |-> 12, d |-> 1, H |-> 13, M |-> 5, S |-> 9]

DefaultArgs ==
    [url |-> LoginUrl, user |-> <<"u">>, password |-> <<"p", "w">>,
     dry_run |-> FALSE, overwrite_existing |-> FALSE, prepend_date |-> FALSE,
     basename |-> NotGiven, output_directory |-> <<"o">>,
     exclude_dbs |-> <<>>, compression |-> none, prefix_format |-> <<>>,
     http_auth |-> NotGiven, server_name |-> NotGiven]

\* runs that differ in how the file is named and saved
FileArgs ==
    { [DefaultArgs EXCEPT !.dry_run = d, !.overwrite_existing = o,
                          !.prepend_date = p, !.basename = b] :
        d \in BOOLEAN, o \in BOOLEAN, p \in BOOLEAN,
        b \in {NotGiven, Given(<<>>), Given(<<"a">>)} }

\* runs that differ in what is sent to the server
NetArgs ==
    { [DefaultArgs EXCEPT !.exclude_dbs = e, !.compression = c, !.http_auth = h,
                          !.dry_run = d] :
        e \in { <<>>, <<"b">>, <<"a", ",", "b", ",", "c">>, <<"a", ",", " ", "b">> },
        c \in {none, gzip},
        h \in {NotGiven, Given(<<"u", ":", "p">>)},
        d \in BOOLEAN }


\* runs that differ in the options the command line checks or passes on
CliArgs ==
    { [DefaultArgs EXCEPT !.prefix_format = f, !.prepend_date = p, !.basename = b,
                          !.server_name = s] :
        f \in { <<>>, <<"%", "Y", "_">> },
        p \in BOOLEAN,
        b \in {NotGiven, Given(<<>>)},
        s \in {NotGiven, Given(<<"h">>)} }

\* parser.parse_args(): the command line is parsed into the arguments, or it
\* breaks a rule of the parser (a positional missing, a compression outside
\* the choices, a timeout that is no integer), or it asks for the help text
CommandLines == {"accepted", "usage error", "help"}

(***************************************************************************)
(* The output directory before the run.                                     *)
(***************************************************************************)
\* f'{basename}_({n}){ext}'
alternate(basename, n, ext) == basename \o <<"_", "(">> \o Digits(n) \o <<")">> \o ext

\* a path and its first numbered alternatives
Numbered(p) ==
    {p} \cup {alternate(splitext(p)[1], k, splitext(p)[2]) : k \in 1..MaxExisting}

BasePaths ==
    { <<"o", "/", "a", ".", "s">>, <<"o", "/", "a">>, <<"o", "/", ".", "s">> }

\* the sets of regular files that may exist when the run starts
FsChoices == UNION {SUBSET Numbered(p) : p \in BasePaths}

(***************************************************************************)
(* State.                                                                   *)
(***************************************************************************)
VARIABLES
    args,              \* the arguments of the call
    pc,                \* where download_sql_backup stands
    history,           \* the requests issued so far, with the status answered
    sent,              \* the request issued by the latest step, if any
    tree,              \* the parsed document of the latest response
    content_disposition,  \* the Content-Disposition header of the export response
    content_filename,  \* the file name the export response suggests
    out_filename,      \* the path being resolved, then the resolved path
    stem,              \* basename, ext = os.path.splitext(out_filename)
    n,                 \* the number of the alternative being tried
    files,             \* the regular files on disk: path -> content
    existing,          \* the paths that were regular files when the run started
    handle,            \* the output file object: "none", "open", "closed"
    stderr,            \* what was printed to sys.stderr
    returned,          \* the value returned, once pc = "Saved"
    error,             \* the exception raised, once pc = "Failed"
    echoed,            \* the variable text put into the messages printed or raised
    command_line,      \* what parser.parse_args() makes of sys.argv
    stdout,            \* what was printed to sys.stdout
    exit_code          \* the exit status of the process, once it has exited

vars == <<args, pc, history, sent, tree, content_disposition, content_filename,
          out_filename, stem, n, files, existing, handle, stderr, returned, error,
          echoed, command_line, stdout, exit_code>>

\* the state of the command-line wrapper, which download_sql_backup leaves alone
main_vars == <<command_line, stdout, exit_code>>

\* the process is still running
NotExited == <<>>

NoRequest == [method |-> "", url |-> Rel(<<>>), auth |-> NotGiven, data |-> <<>>]

\* requests.Session(): no credentials are ever set on the session
session == [auth |-> NotGiven]

\* session.get / session.post: the request as it leaves the session
Request(method, url, data) ==
    [method |-> method, url |-> url, auth |-> session.auth, data |-> data]

\* os.path.isfile
isfile(p) == p \in DOMAIN files

TypeOK ==
    /\ pc \in {"Main", "Exited", "Start", "LoginPage", "LoggedIn", "ExportPageLoaded", "Submitted",
               "Resolving", "Resolved", "Writing", "Saved", "Failed"}
    /\ handle \in {"none", "open", "closed"}
    /\ n \in Nat
    /\ command_line \in CommandLines
    /\ exit_code \in {NotExited, <<0>>, <<1>>, <<2>>}

Init ==
    /\ \E a \in FileArgs \cup NetArgs \cup CliArgs, f \in FsChoices, c \in CommandLines :
          /\ a \in FileArgs \/ f = {}
          /\ c = "accepted" \/ (a = DefaultArgs /\ f = {})
          /\ args = a
          /\ command_line = c
          /\ files = [p \in f |-> <<"old">>]
          /\ existing = f
    /\ pc = "Main"
    /\ stdout = <<>>
    /\ exit_code = NotExited
    /\ echoed = <<>>
    /\ history = <<>>
    /\ sent = NoRequest
    /\ tree = NoDoc
    /\ content_disposition = <<>>
    /\ content_filename = <<>>
    /\ out_filename = <<>>
    /\ stem = <<<<>>, <<>>>>
    /\ n = 0
    /\ handle = "none"
    /\ stderr = <<>>
    /\ returned = <<>>
    /\ error = ""

\* raise: the run ends, the exception reaches the caller
Raise(what) ==
    /\ pc' = "Failed"
    /\ error' = what

\* line 194: a prefix format given without the switch that uses it
invalid_combination_any_prefix(a) == a.prefix_format # <<>>

\* line 194: args.prefix_format and not args.prepend_date
invalid_combination(a) == a.prefix_format # <<>> /\ ~a.prepend_date

\* lines 192-196: parse the command line, check the option combination
ParseArgs ==
    /\ pc = "Main"
    /\ IF command_line = "usage error"
       THEN /\ stderr' = Append(stderr, "usage")
            /\ exit_code' = <<2>>
            /\ pc' = "Exited"
            /\ UNCHANGED stdout
       ELSE IF command_line = "help"
       THEN /\ stdout' = Append(stdout, [line |-> "usage", path |-> <<>>])
            /\ exit_code' = <<0>>
            /\ pc' = "Exited"
            /\ UNCHANGED stderr
       ELSE IF invalid_combination(args)
       THEN /\ stderr' = Append(stderr, "Error: --prefix-format given without --prepend-date")
            /\ exit_code' = <<2>>
            /\ pc' = "Exited"
            /\ UNCHANGED stdout
       ELSE /\ pc' = "Start"
            /\ UNCHANGED <<stdout, stderr, exit_code>>
    /\ UNCHANGED <<args, command_line, history, sent, tree, content_disposition, content_filename,
                   out_filename, stem, n, files, existing, handle, returned, error, echoed>>

\* lines 56-61: GET the login page
LoginGet ==
    /\ pc = "Start"
    /\ \E status \in Statuses, doc \in LoginDocs :
          /\ sent' = Request("GET", args.url, <<>>)
          /\ history' = Append(history, [step |-> "GET login", status |-> status])
          /\ IF status # 200
             THEN /\ Raise("ValueError: Failed to load the login page.")
                  /\ tree' = NoDoc
             ELSE /\ pc' = "LoginPage"
                  /\ tree' = doc
                  /\ UNCHANGED error
    /\ UNCHANGED <<main_vars, echoed, args, content_disposition, content_filename, out_filename, stem, n, files, existing,
                   handle, stderr, returned>>

\* mutant: the action of whatever form comes first on the page
login_form_action_any_form(t, url) ==
    IF t.forms # <<>> /\ t.forms[1].has_action THEN t.forms[1].action ELSE url

\* lines 64-77: the login form's action and the fields posted to it
login_form_action(t, url) ==
    LET form_action == xpath_login_form_action(t)
    IN  IF form_action # <<>> THEN form_action[1] ELSE url

login_form_data(t, user, password) ==
    AddHidden([k \in {"pma_username", "pma_password"} |->
                  IF k = "pma_username" THEN <<user>> ELSE <<password>>],
              xpath_login_hidden_inputs(t))

\* mutant: the login response is judged by its status alone
login_failed_status_only(status, doc) == status # 200

\* lines 81-86: the two checks made on the login response
login_failed(status, doc) == status # 200 \/ ~is_login_successful(doc)

\* lines 63-86: POST the login form, check the answer
LoginPost ==
    /\ pc = "LoginPage"
    /\ \E status \in Statuses, doc \in PostLoginDocs :
          /\ sent' = Request("POST", urljoin(args.url, login_form_action(tree, args.url)),
                             login_form_data(tree, args.user, args.password))
          /\ history' = Append(history, [step |-> "POST login", status |-> status])
          /\ IF login_failed(status, doc)
             THEN /\ Raise("ValueError: Could not log in. Please check your credentials.")
                  /\ tree' = IF status # 200 THEN tree ELSE doc
             ELSE /\ pc' = "LoggedIn"
                  /\ tree' = doc
                  /\ UNCHANGED error
    /\ UNCHANGED <<main_vars, echoed, args, content_disposition, content_filename, out_filename, stem, n, files, existing,
                   handle, stderr, returned>>

\* mutant: the route-style marker tried first
find_export_url_modern_first(t) ==
    LET modern == xpath_topmenu_hrefs(t, "index.php?route=/server/export")
    IN  IF modern # <<>> THEN modern
        ELSE xpath_topmenu_hrefs(t, "server_export.php")

\* lines 89-91: the export link, the legacy marker first
find_export_url(t) ==
    LET legacy == xpath_topmenu_hrefs(t, "server_export.php")
    IN  IF legacy # <<>> THEN legacy
        ELSE xpath_topmenu_hrefs(t, "index.php?route=/server/export")

\* lines 88-98: find the export link and GET the export page
ExportGet ==
    /\ pc = "LoggedIn"
    /\ LET export_url == find_export_url(tree)
       IN  IF export_url = <<>>
           THEN /\ Raise("ValueError: Could not find export URL.")
                /\ sent' = NoRequest
                /\ UNCHANGED tree
                /\ UNCHANGED history
           ELSE \E status \in Statuses, doc \in ExportDocs :
                  /\ sent' = Request("GET", urljoin(args.url, export_url[1]), <<>>)
                  /\ history' = Append(history, [step |-> "GET export", status |-> status])
                  /\ pc' = "ExportPageLoaded"
                  /\ tree' = doc
                  /\ UNCHANGED error
    /\ UNCHANGED <<main_vars, echoed, args, content_disposition, content_filename, out_filename, stem, n, files, existing,
                   handle, stderr, returned>>


\* line 55: exclude_dbs.split(',') if exclude_dbs else []
excluded(exclude_dbs) == IF exclude_dbs # <<>> THEN split(exclude_dbs, ",") ELSE <<>>

\* line 103: the available databases that are not excluded, order kept
dbs_to_dump(dbs_available, exclude_dbs) ==
    LET keep(db_name) == db_name \notin Range(excluded(exclude_dbs))
    IN  SelectSeq(dbs_available, keep)

\* lines 110-120: the fields of the export POST
export_form_data(t, dbs, compression) ==
    AddHidden([k \in {"db_select[]", "compression", "what", "filename_template",
                      "sql_structure_or_data"} |->
                  CASE k = "db_select[]" -> dbs
                    [] k = "compression" -> <<compression>>
                    [] k = "what" -> <<sql>>
                    [] k = "filename_template" -> <<server_template>>
                    [] k = "sql_structure_or_data" -> <<structure_and_data>>],
              xpath_dump_hidden_inputs(t))

\* ", ".join(dbs_available)
RECURSIVE str_join(_, _)
str_join(sep, items) ==
    IF items = <<>> THEN <<>>
    ELSE IF Len(items) = 1 THEN items[1]
    ELSE items[1] \o sep \o str_join(sep, Tail(items))

\* lines 104-105: the text the warning carries, the databases available
WarnText(dbs, dbs_available, texts) ==
    IF dbs = <<>> THEN Append(texts, str_join(<<",", " ">>, dbs_available)) ELSE texts

\* mutant: nothing is printed when nothing is left to dump
WarnIfEmpty_silent(dbs, out) == out

\* lines 104-106: the warning printed when nothing is left to dump
WarnIfEmpty(dbs, out) ==
    IF dbs = <<>> THEN Append(out, "Warning: no databases to dump") ELSE out

\* lines 101-127: choose the databases, POST the export form, read the
\* suggested file name off the response
ExportPost ==
    /\ pc = "ExportPageLoaded"
    /\ LET dbs == dbs_to_dump(xpath_db_options(tree), args.exclude_dbs)
           dump_form_action == xpath_dump_form_action(tree)
           warned == WarnText(dbs, xpath_db_options(tree), echoed)
       IN  /\ stderr' = WarnIfEmpty(dbs, stderr)
           /\ IF dump_form_action = <<>>
              THEN /\ Raise("IndexError: list index out of range")
                   /\ sent' = NoRequest
                   /\ echoed' = warned
                   /\ UNCHANGED <<history, content_disposition, content_filename>>
              ELSE \E status \in Statuses, header \in Headers :
                     /\ sent' = Request("POST", urljoin(args.url, dump_form_action[1]),
                                        export_form_data(tree, dbs, args.compression))
                     /\ history' = Append(history,
                                          [step |-> "POST export", status |-> status])
                     /\ content_disposition' = header
                     /\ IF ~re_match(header)
                        THEN /\ Raise("ValueError: Could not determine SQL backup filename")
                             /\ echoed' = Append(warned, header)
                             /\ UNCHANGED content_filename
                        ELSE /\ pc' = "Submitted"
                             /\ content_filename' = group_filename(header)
                             /\ echoed' = warned
                             /\ UNCHANGED error
    /\ tree' = NoDoc
    /\ UNCHANGED <<main_vars, args, out_filename, stem, n, files, existing, handle, returned>>

\* mutant: an empty basename taken for none (basename or content_filename)
composed_path_empty_basename_ignored(a, suggested) ==
    LET filename == IF ~a.basename.given \/ a.basename.value = <<>> THEN suggested
                    ELSE a.basename.value \o splitext(suggested)[2]
        prefix_format == IF a.prefix_format # <<>> THEN a.prefix_format
                         ELSE DEFAULT_PREFIX_FORMAT
        prefixed == IF a.prepend_date THEN strftime(prefix_format, Now) \o filename
                    ELSE filename
    IN  join(a.output_directory, prefixed)

\* lines 130-134: the path composed from the suggested name and the options
composed_path(a, suggested) ==
    LET filename == IF ~a.basename.given THEN suggested
                    ELSE a.basename.value \o splitext(suggested)[2]
        prefix_format == IF a.prefix_format # <<>> THEN a.prefix_format
                         ELSE DEFAULT_PREFIX_FORMAT
        prefixed == IF a.prepend_date THEN strftime(prefix_format, Now) \o filename
                    ELSE filename
    IN  join(a.output_directory, prefixed)

\* mutant: the overwrite flag read the wrong way round
must_renumber_flipped(path, overwrite_existing) == isfile(path) /\ overwrite_existing

\* line 136: whether numbered alternatives have to be tried
must_renumber(path, overwrite_existing) == isfile(path) /\ ~overwrite_existing

\* lines 129-139: compose the path, look whether it is taken
Compose ==
    /\ pc = "Submitted"
    /\ LET path == composed_path(args, content_filename)
       IN  /\ out_filename' = path
           /\ IF must_renumber(path, args.overwrite_existing)
              THEN /\ stem' = splitext(path)
                   /\ n' = 1
                   /\ stderr' = Append(stderr, "File already exists")
                   /\ echoed' = Append(echoed, path)
                   /\ pc' = "Resolving"
              ELSE /\ pc' = "Resolved"
                   /\ UNCHANGED <<stem, n, stderr, echoed>>
    /\ sent' = NoRequest
    /\ UNCHANGED <<main_vars, args, history, tree, content_disposition, content_filename, files, existing, handle,
                   returned, error>>

\* mutant: the counter stepped by two
next_n_skip(k) == k + 2

\* line 145: the next number to try
next_n(k) == k + 1

\* lines 140-145: one turn of the loop over the numbered alternatives
Probe ==
    /\ pc = "Resolving"
    /\ LET alternate_out_filename == alternate(stem[1], n, stem[2])
       IN  IF ~isfile(alternate_out_filename)
           THEN /\ out_filename' = alternate_out_filename
                /\ pc' = "Resolved"
                /\ UNCHANGED n
           ELSE /\ n' = next_n(n)
                /\ UNCHANGED <<out_filename, pc>>
    /\ UNCHANGED <<main_vars, echoed, args, history, sent, tree, content_disposition, content_filename, stem, files, existing,
                   handle, stderr, returned, error>>

\* a file with the given content at the path, created or replaced
WriteFile(fs, p, c) == [q \in (DOMAIN fs) \cup {p} |-> IF q = p THEN c ELSE fs[q]]

\* open(path, 'wb') can succeed: the path names a file, not a directory
can_open(p) == p # <<>> /\ ~EndsWith(p, "/")

\* line 148, dry run: nothing is opened, the path is returned
DryRunReturn ==
    /\ pc = "Resolved"
    /\ args.dry_run
    /\ pc' = "Saved"
    /\ returned' = out_filename
    /\ UNCHANGED <<main_vars, echoed, args, history, sent, tree, content_disposition, content_filename, out_filename, stem, n,
                   files, existing, handle, stderr, error>>

\* mutant: the file is opened without looking at dry_run
OpenFile_in_dry_run ==
    /\ pc = "Resolved"
    /\ can_open(out_filename)
    /\ files' = WriteFile(files, out_filename, <<>>)
    /\ handle' = "open"
    /\ pc' = "Writing"
    /\ UNCHANGED <<main_vars, echoed, args, history, sent, tree, content_disposition, content_filename,
                   out_filename, stem, n, existing, stderr, returned, error>>

\* line 149: open(out_filename, 'wb') creates the file or truncates it
OpenFile ==
    /\ pc = "Resolved"
    /\ ~args.dry_run
    /\ can_open(out_filename)
    /\ files' = WriteFile(files, out_filename, <<>>)
    /\ handle' = "open"
    /\ pc' = "Writing"
    /\ UNCHANGED <<main_vars, echoed, args, history, sent, tree, content_disposition, content_filename, out_filename, stem, n,
                   existing, stderr, returned, error>>

\* line 149: open raises (missing directory, no permission, a directory path)
OpenFails ==
    /\ pc = "Resolved"
    /\ ~args.dry_run
    /\ Raise("OSError: open")
    /\ echoed' = Append(echoed, out_filename)
    /\ UNCHANGED <<main_vars, args, history, sent, tree, content_disposition, content_filename, out_filename, stem, n,
                   files, existing, handle, stderr, returned>>

\* mutant: the file is opened without a with block and never closed
with_exit_leaves_open(h) == h

\* the file object's state when the with block is left, normally or by an
\* exception
with_exit(h) == "closed"

\* lines 150-151: one chunk of the response is written
WriteChunk ==
    /\ pc = "Writing"
    /\ Len(files[out_filename]) < MaxChunks
    /\ files' = WriteFile(files, out_filename, Append(files[out_filename], "chunk"))
    /\ UNCHANGED <<main_vars, echoed, args, pc, history, sent, tree, content_disposition, content_filename, out_filename, stem,
                   n, existing, handle, stderr, returned, error>>

\* lines 150-153: the stream ends, the with block closes the file, the path
\* is returned
FinishWrite ==
    /\ pc = "Writing"
    /\ handle' = with_exit(handle)
    /\ pc' = "Saved"
    /\ returned' = out_filename
    /\ UNCHANGED <<main_vars, echoed, args, history, sent, tree, content_disposition, content_filename, out_filename, stem, n,
                   files, existing, stderr, error>>

\* lines 150-151: reading the next chunk or writing it raises; the with block
\* closes the file and the exception goes on to the caller
WriteFails ==
    /\ pc = "Writing"
    /\ handle' = with_exit(handle)
    /\ Raise("OSError: write")
    /\ UNCHANGED <<main_vars, echoed, args, history, sent, tree, content_disposition, content_filename, out_filename, stem, n,
                   files, existing, stderr, returned>>

\* the variables of download_sql_backup, which the wrapper leaves alone
run_vars == <<args, history, sent, tree, content_disposition, content_filename,
              out_filename, stem, n, files, existing, handle, returned, error>>

\* lines 200-202: the exception is printed on one line, the process exits
\* with 1
MainExcept ==
    /\ pc = "Failed"
    /\ exit_code = NotExited
    /\ stderr' = Append(stderr, "Error: " \o error)
    /\ exit_code' = <<1>>
    /\ UNCHANGED <<run_vars, pc, command_line, stdout, echoed>>

\* line 204: the words before the path
saved_line(dry_run) ==
    IF dry_run THEN "Would have saved SQL dump to" ELSE "Successfully saved SQL dump to"

\* lines 204-205: the path is printed, the script ends
MainPrint ==
    /\ pc = "Saved"
    /\ exit_code = NotExited
    /\ stdout' = Append(stdout, [line |-> saved_line(args.dry_run), path |-> returned])
    /\ echoed' = Append(echoed, returned)
    /\ exit_code' = <<0>>
    /\ UNCHANGED <<run_vars, pc, command_line, stderr>>

Next ==
    \/ ParseArgs
    \/ MainExcept
    \/ MainPrint
    \/ LoginGet
    \/ LoginPost
    \/ ExportGet
    \/ ExportPost
    \/ Compose
    \/ Probe
    \/ DryRunReturn
    \/ OpenFile
    \/ OpenFails
    \/ WriteChunk
    \/ FinishWrite
    \/ WriteFails

Spec == Init /\ [][Next]_vars


(***************************************************************************)
(* Properties.                                                              *)
(***************************************************************************)
\* the files that existed before the run are all there, with their content
Untouched == \A p \in existing : p \in DOMAIN files /\ files[p] = <<"old">>

\* nothing on disk was created, opened or modified
DiskAsBefore == DOMAIN files = existing /\ Untouched /\ handle = "none"

StepsOf(h) == [i \in 1..Len(h) |-> h[i].step]

\* C1: with overwrite_existing false, the path opened for writing (and the path
\* returned) is never one that was an existing file when the name was
\* resolved, and no existing file is modified; an existing file is opened for
\* writing only when overwrite_existing is true.
C1_NeverOverwrites ==
    /\ (handle # "none" /\ out_filename \in existing) => args.overwrite_existing
    /\ ~args.overwrite_existing =>
          /\ Untouched
          /\ pc = "Saved" => returned \notin existing

\* C1 witness: a run without overwrite that met a taken name, tried two
\* numbers and wrote its file
C1_Witness ==
    /\ ~args.overwrite_existing /\ ~args.dry_run
    /\ pc = "Saved" /\ handle = "closed" /\ n = 2
    /\ composed_path(args, content_filename) \in existing

HasLoginForm(t) == \E i \in 1..Len(t.forms) : t.forms[i].id = "login_form"

Workflow == <<"GET login", "POST login", "GET export", "POST export">>

\* how far pc has gone along Start -> LoggedIn -> ExportPageLoaded ->
\* Submitted -> Saved
Rank(p) ==
    CASE p \in {"Main", "Start", "LoginPage"} -> 0
      [] p = "LoggedIn" -> 1
      [] p = "ExportPageLoaded" -> 2
      [] p \in {"Submitted", "Resolving", "Resolved", "Writing"} -> 3
      [] p = "Saved" -> 4
      [] p \in {"Failed", "Exited"} -> 5

\* C3: the run only moves forward through Start, LoggedIn, ExportPageLoaded,
\* Submitted, Saved, or into Failed, which it never leaves; the requests are a
\* prefix of GET login, POST login, GET export, POST export (the fixed order,
\* each at most once); the workflow is in LoggedIn, from where alone the
\* export page is requested, only after a login response on which
\* is_login_successful is true; a file is touched only after the export POST.
C3_LinearWorkflow ==
    /\ [](/\ Len(history) <= 4
          /\ StepsOf(history) = SubSeq(Workflow, 1, Len(history))
          /\ pc = "LoggedIn" => (Len(history) = 2 /\ is_login_successful(tree))
          /\ Len(history) < 4 => DiskAsBefore
          /\ Rank(pc) \in 1..4 => Len(history) = (IF Rank(pc) = 4 THEN 4 ELSE Rank(pc) + 1))
    /\ [][/\ Rank(pc') >= Rank(pc)
          /\ Rank(pc') <= 4 => Rank(pc') <= Rank(pc) + 1
          /\ pc = "Failed" => pc' = "Failed"
          /\ Len(history') > Len(history) =>
                /\ Len(history') = Len(history) + 1
                /\ sent'.method = (IF Len(history') \in {1, 3} THEN "GET" ELSE "POST")
          /\ Len(history') = 3 /\ Len(history) = 2 => pc = "LoggedIn"]_vars

\* C3 witness: all four requests were issued and the file was saved
C3_Witness ==
    /\ pc = "Saved" /\ ~args.dry_run
    /\ StepsOf(history) = Workflow
    /\ Len(files[returned]) = MaxChunks

\* the claimed selection: the available databases without the excluded names
RECURSIVE Without(_, _)
Without(dbs, names) ==
    IF dbs = <<>> THEN <<>>
    ELSE (IF dbs[1] \in names THEN <<>> ELSE <<dbs[1]>>) \o Without(Tail(dbs), names)

ExcludedNames(a) == IF a.exclude_dbs = <<>> THEN {} ELSE Range(split(a.exclude_dbs, ","))

HasDumpForm(t) == xpath_dump_form_action(t) # <<>>

\* C4 as claimed: the db_select[] values sent in the export POST are the
\* available databases with the excluded names removed, in the page's order;
\* with an empty selection the POST is still issued, with a warning on stderr.
C4_SelectionSubmitted ==
    [][(pc = "ExportPageLoaded" /\ HasDumpForm(tree))
          => LET selection == Without(xpath_db_options(tree), ExcludedNames(args))
             IN  /\ sent'.method = "POST" /\ Len(history') = 4
                 /\ sent'.data["db_select[]"] = selection
                 /\ selection = <<>> =>
                       stderr' = Append(stderr, "Warning: no databases to dump")]_vars


\* the header carries filename= followed by a double-quoted, non-empty value
HasQuotedFilename(h) ==
    \E i, k \in 1..Len(h) :
        /\ k >= i + Len(FilenameLit) + 1
        /\ SubSeq(h, i, i + Len(FilenameLit) - 1) = FilenameLit
        /\ h[k] = "\""
        /\ \A m \in (i + Len(FilenameLit))..(k - 1) : h[m] # "\""

\* C5: when the export response has no Content-Disposition header, or the
\* header has no double-quoted non-empty filename= value, the run fails and no
\* file is created or opened, in a dry run and in a normal run alike; no
\* fallback name is used.
C5_NoFilenameNoFile ==
    (Len(history) = 4 /\ ~HasQuotedFilename(content_disposition))
        => /\ pc = "Failed"
           /\ DiskAsBefore
           /\ content_filename = <<>> /\ out_filename = <<>> /\ returned = <<>>

\* C5 witness: a normal run failed on a header whose filename= value is not
\* quoted
C5_Witness ==
    /\ pc = "Failed" /\ ~args.dry_run /\ Len(history) = 4
    /\ content_disposition = Attachment \o SubSeq(FilenameLit, 1, 9) \o <<"a", ".", "s">>

\* the numbered alternative k of the composed path
Alternative(k) ==
    LET p == composed_path(args, content_filename)
    IN  alternate(splitext(p)[1], k, splitext(p)[2])

\* the composed path was taken and overwriting was not asked for
Collided ==
    /\ Len(history) = 4 /\ pc \notin {"Submitted", "Failed"}
    /\ composed_path(args, content_filename) \in existing
    /\ ~args.overwrite_existing

\* C6: when the composed path stem+ext exists and overwrite is false, the
\* numbers are tried from 1 upwards one by one (every number below the one
\* being tried names an existing file), and the path resolved is stem_(N)ext
\* for the smallest N >= 1 whose stem_(N)ext does not exist.
C6_SmallestFreeNumber ==
    /\ (Collided /\ pc = "Resolving") =>
          /\ n >= 1
          /\ \A k \in 1..(n - 1) : Alternative(k) \in existing
    /\ (Collided /\ pc \in {"Resolved", "Writing", "Saved"}) =>
          /\ n >= 1
          /\ out_filename = Alternative(n)
          /\ Alternative(n) \notin existing
          /\ \A k \in 1..(n - 1) : Alternative(k) \in existing

\* C6 witness: stem_(1)ext and stem_(2)ext were taken and stem_(3)ext was
\* resolved
C6_Witness ==
    /\ Collided /\ pc = "Resolved" /\ n = MaxExisting + 1
    /\ out_filename = Alternative(MaxExisting + 1)

\* the path a run is to write: the composed path, or its first free numbered
\* alternative when the composed path is taken and overwriting is not asked
\* for; it does not depend on dry_run
ExpectedPath ==
    LET p == composed_path(args, content_filename)
    IN  IF p \in existing /\ ~args.overwrite_existing
        THEN Alternative(CHOOSE k \in 1..(Cardinality(existing) + 1) :
                            /\ Alternative(k) \notin existing
                            /\ \A j \in 1..(k - 1) : Alternative(j) \in existing)
        ELSE p

\* C7: a dry run creates, opens and modifies no file, and the path it returns
\* is the path a normal run with the same arguments, responses, clock and
\* directory content opens and returns.
C7_DryRunSamePath ==
    /\ args.dry_run => DiskAsBefore
    /\ pc = "Saved" => returned = ExpectedPath
    /\ handle # "none" =>
          /\ ~args.dry_run
          /\ out_filename = ExpectedPath
          /\ DOMAIN files = existing \cup {ExpectedPath}

\* C7 witness: a dry run returned a numbered alternative and left the disk as
\* it was
C7_Witness ==
    /\ args.dry_run /\ pc = "Saved" /\ n = 1
    /\ returned = Alternative(1) /\ returned \notin DOMAIN files

\* C8 as claimed: a GET answered with a status outside 2xx ends the run at
\* that step: no later request, no file.
C8_GetFailsOnBadStatus ==
    \A i \in 1..Len(history) :
        (history[i].step \in {"GET login", "GET export"}
            /\ history[i].status \notin 200..299)
        => (pc = "Failed" /\ Len(history) = i /\ DiskAsBefore)

\* C9 as claimed: with http_auth given, every request carries those
\* credentials.
C9_AuthOnEveryRequest ==
    (args.http_auth.given /\ sent.method # "") => sent.auth = args.http_auth

\* C10: a failure while the output file is open leaves the file closed and in
\* place with what was written so far, and the error reaches the caller; the
\* file is closed on the success path too; it is open only while writing.
C10_ClosedAndKept ==
    /\ [](/\ handle = "open" <=> pc = "Writing"
          /\ (pc = "Failed" /\ handle # "none") =>
                /\ handle = "closed"
                /\ out_filename \in DOMAIN files
                /\ error # ""
          /\ (pc = "Saved" /\ ~args.dry_run) =>
                /\ handle = "closed"
                /\ returned \in DOMAIN files)
    /\ [][(pc = "Writing" /\ pc' # "Writing") => files' = files]_vars

\* C10 witness: the write failed after one chunk, which is still in the file
C10_Witness ==
    /\ pc = "Failed" /\ handle = "closed" /\ error = "OSError: write"
    /\ files[out_filename] = <<"chunk">>


HasDbSelect(t) == \E i \in 1..Len(t.selects) : t.selects[i].name = "db_select[]"

\* C11 as claimed: an export page without the select db_select[] ends the run
\* in failure and the export POST is not issued.
C11_FailsWithoutDbSelect ==
    [][(pc = "ExportPageLoaded" /\ ~HasDbSelect(tree))
          => (pc' = "Failed" /\ history' = history /\ sent'.method # "POST")]_vars

\* C11 as amended: an export page without the select db_select[] is handled
\* like one whose databases are all excluded: the warning is printed and, the
\* form dump being there, the export POST is issued; the run then fails only
\* if the response carries no usable file name.
C11_WarnsWithoutDbSelect ==
    [][(pc = "ExportPageLoaded" /\ ~HasDbSelect(tree))
          => /\ stderr' = Append(stderr, "Warning: no databases to dump")
             /\ HasDumpForm(tree) =>
                   /\ sent'.method = "POST" /\ Len(history') = 4
                   /\ pc' = (IF HasQuotedFilename(content_disposition')
                             THEN "Submitted" ELSE "Failed")]_vars

\* C11 witness: nothing was excluded, the page offered no database select, the
\* warning was printed and the export POST went out and was answered
C11_Witness ==
    /\ pc = "Submitted" /\ Len(history) = 4 /\ sent.method = "POST"
    /\ args.exclude_dbs = <<>>
    /\ stderr = <<"Warning: no databases to dump">>

HasFormNamedDump(t) == \E i \in 1..Len(t.forms) : t.forms[i].name = "dump"

\* C12: an export page without a form named dump ends the run in failure with
\* no export POST issued and no file written.
C12_FailsWithoutDumpForm ==
    /\ [][(pc = "ExportPageLoaded" /\ ~HasFormNamedDump(tree))
             => (pc' = "Failed" /\ history' = history /\ sent'.method # "POST")]_vars
    /\ []((pc = "Failed" /\ Len(history) = 3) => DiskAsBefore)

\* C12 witness: the run failed on the export page's missing form, three
\* requests issued
C12_Witness ==
    /\ pc = "Failed" /\ Len(history) = 3
    /\ error = "IndexError: list index out of range"

\* the hrefs of the links inside topmenu that contain the marker, in order
TopmenuMatches(t, marker) ==
    LET hit(l) == l.topmenu /\ marker \in Range(l.href.path)
        hits == SelectSeq(t.links, hit)
    IN  [i \in 1..Len(hits) |-> hits[i].href]

\* C13: after a successful login the export page requested is the first link
\* inside topmenu whose href contains server_export.php; only when there is
\* none, the first whose href contains index.php?route=/server/export; when
\* there is neither the run fails and no export page is requested.
C13_ExportLinkChoice ==
    [][pc = "LoggedIn" =>
          LET legacy == TopmenuMatches(tree, "server_export.php")
              modern == TopmenuMatches(tree, "index.php?route=/server/export")
          IN  /\ legacy # <<>> =>
                    (sent'.method = "GET" /\ sent'.url = urljoin(args.url, legacy[1]))
              /\ (legacy = <<>> /\ modern # <<>>) =>
                    (sent'.method = "GET" /\ sent'.url = urljoin(args.url, modern[1]))
              /\ (legacy = <<>> /\ modern = <<>>) =>
                    (pc' = "Failed" /\ history' = history /\ sent'.method = "")]_vars

\* C13 witness: the export page was requested by the legacy link
C13_Witness ==
    /\ pc = "ExportPageLoaded" /\ Len(history) = 3
    /\ sent.method = "GET" /\ sent.url.path = LegacyLink(TRUE).href.path


\* a prefix format on an accepted command line that lacks --prepend-date
PrefixWithoutToggle ==
    command_line = "accepted" /\ args.prefix_format # <<>> /\ ~args.prepend_date

\* C14 as stated: the process exits with 2, before any request, exactly when
\* a prefix format is given without the date-prefix toggle; it exits with 1
\* only after a failure of the workflow and one error line on stderr, and with
\* 0 only when the workflow returned a path, which is then printed on stdout.
C14_ExitTwoOnlyForPrefixFormat ==
    /\ exit_code = <<2>> => (PrefixWithoutToggle /\ history = <<>>)
    /\ (PrefixWithoutToggle /\ pc # "Main") => exit_code = <<2>>
    /\ exit_code = <<1>> => (pc = "Failed" /\ stderr[Len(stderr)] = "Error: " \o error)
    /\ exit_code = <<0>> => (pc = "Saved" /\ stdout[Len(stdout)].path = returned)

\* C14 amended: the process exits with 2, before any request, exactly when
\* the parser rejects the command line or a prefix format is given without the
\* date-prefix toggle; a request for the help text ends it with 0 before any
\* request; otherwise every failure of the workflow is followed by one error
\* line on stderr and exit code 1, every returned path is printed on stdout
\* and followed by exit code 0, and these are the only ways the process ends.
C14_ExitCodesWithParser ==
    /\ [](/\ exit_code = <<2>> <=>
                (pc = "Exited" /\ (command_line = "usage error" \/ PrefixWithoutToggle))
          /\ pc = "Exited" => (exit_code # NotExited /\ history = <<>> /\ sent = NoRequest)
          /\ (PrefixWithoutToggle \/ command_line # "accepted") => pc \in {"Main", "Exited"}
          /\ exit_code = <<1>> =>
                (pc = "Failed" /\ stderr[Len(stderr)] = "Error: " \o error /\ stdout = <<>>)
          /\ exit_code = <<0>> =>
                \/ pc = "Exited" /\ command_line = "help"
                \/ /\ pc = "Saved"
                   /\ stdout = << [line |-> IF args.dry_run THEN "Would have saved SQL dump to"
                                            ELSE "Successfully saved SQL dump to",
                                   path |-> returned] >>)
    /\ [][/\ (pc = "Failed" /\ exit_code = NotExited) =>
                (exit_code' = <<1>> /\ Len(stderr') = Len(stderr) + 1 /\ pc' = pc)
          /\ (pc = "Saved" /\ exit_code = NotExited) => (exit_code' = <<0>> /\ pc' = pc)
          /\ exit_code # NotExited => exit_code' = exit_code]_vars

\* C14 witness: a prefix format without --prepend-date ended the process with
\* 2 and one error line, no request issued
C14_Witness ==
    /\ exit_code = <<2>> /\ PrefixWithoutToggle
    /\ history = <<>>
    /\ stderr = <<"Error: --prefix-format given without --prepend-date">>

\* the clock of the run written out in the two prefix formats the runs use
Stamp ==
    IF args.prefix_format = <<>>
    THEN <<"2", "0", "2", "4", "-", "1", "2", "-", "0", "1", "-", "-", "1", "3", "-",
           "0", "5", "-", "0", "9", "-", "U", "T", "C", "_">>
    ELSE <<"2", "0", "2", "4", "_">>

\* output_directory joined with prefix + stem + extension
PrefixStemExtension ==
    LET suggested == splitext(content_filename)
        stem_part == IF args.basename.given THEN args.basename.value ELSE suggested[1]
        prefix    == IF args.prepend_date THEN Stamp ELSE <<>>
    IN  args.output_directory \o <<"/">> \o prefix \o stem_part \o suggested[2]

\* C15: when no file exists at output_directory/prefix+stem+extension, that
\* is the path the resolution ends with and the run returns; the extension is
\* the one of the suggested file name, the stem the basename given (the empty
\* one included) or else the stem of the suggested name, the prefix the
\* formatted UTC time when prepend_date is set and empty otherwise.
C15_CleanDirectoryPath ==
    (pc \in {"Resolved", "Writing", "Saved"} /\ PrefixStemExtension \notin existing)
        => /\ out_filename = PrefixStemExtension
           /\ n = 0
           /\ pc = "Saved" => returned = PrefixStemExtension

\* C15 witness: an empty basename with a custom prefix format; the path
\* returned is the directory, the year and the extension of the suggested name
C15_Witness ==
    /\ pc = "Saved" /\ args.basename = Given(<<>>) /\ args.prepend_date
    /\ content_filename = <<"a", ".", "s">>
    /\ returned = <<"o", "/", "2", "0", "2", "4", "_", ".", "s">>

\* some anchor of the document has an href in which one of the three markers
\* occurs
SomeHrefHasMarker(t) ==
    \E i \in 1..Len(t.links) :
        \E marker \in {"frame_content", "server_export.php",
                       "index.php?route=/server/export"} :
            \E j \in 1..Len(t.links[i].href.path) : t.links[i].href.path[j] = marker

\* the login POST was answered with 200 and nothing was requested after it
LoginAnswered == Len(history) = 2 /\ history[2].status = 200

\* C16: is_login_successful is true of a document exactly when some href of
\* an anchor in it contains one of frame_content, server_export.php,
\* index.php?route=/server/export; and a login response served with 200 is
\* refused as a failed login exactly when it has no such href (no links at
\* all, or links that match no marker).
C16_LoginJudgedByMarkers ==
    /\ is_login_successful(tree) <=> SomeHrefHasMarker(tree)
    /\ LoginAnswered =>
          ((pc = "Failed"
              /\ error = "ValueError: Could not log in. Please check your credentials.")
            <=> ~SomeHrefHasMarker(tree))

\* C16 witness: a login response whose only link is outside the top menu and
\* carries the frame_content marker was accepted
C16_Witness ==
    /\ LoginAnswered /\ pc = "LoggedIn"
    /\ Len(tree.links) = 1 /\ ~tree.links[1].topmenu
    /\ tree.links[1].href.path[2] = "frame_content"

\* the inputs inside the forms with id login_form
LoginFormInputs(t) ==
    UNION { Range(t.forms[i].inputs) : i \in {k \in 1..Len(t.forms) : t.forms[k].id = "login_form"} }

\* C17: when the login page has the login form, the fields of the login POST
\* hold every named hidden input of the form with its value, the empty string
\* when it has no value attribute, and nothing taken from an input that is not
\* hidden: every field is a hidden input's or one of the two credentials with
\* the caller's value.
C17_HiddenInputsCollected ==
    [][(pc = "LoginPage" /\ HasLoginForm(tree)) =>
          LET inputs == LoginFormInputs(tree)
              named_hidden == {i \in inputs : i.type = "hidden" /\ i.name \notin {NoAttr, ""}}
          IN  /\ sent'.method = "POST"
              /\ \A i \in named_hidden :
                    /\ i.name \in DOMAIN sent'.data
                    /\ sent'.data[i.name] = << IF i.has_value THEN i.value ELSE <<>> >>
              /\ \A k \in DOMAIN sent'.data :
                    \/ \E i \in named_hidden : i.name = k
                    \/ k = "pma_username" /\ sent'.data[k] = <<args.user>>
                    \/ k = "pma_password" /\ sent'.data[k] = <<args.password>>]_vars

\* C17 witness: the login form's token and its valueless set_session were
\* posted, the visible server-name input was not
C17_Witness ==
    /\ Len(history) = 2 /\ sent.method = "POST"
    /\ DOMAIN sent.data = {"pma_username", "pma_password", "token", "set_session"}
    /\ sent.data["token"] = <<token>>
    /\ sent.data["set_session"] = << <<>> >>

\* C18 as claimed: when the caller supplies a server name the login POST has
\* a field that carries it; when none is supplied the program adds no
\* server-name field (the fields are the two credentials and the hidden inputs).
C18_ServerNameSent ==
    [][pc = "LoginPage" =>
          /\ sent'.method = "POST"
          /\ args.server_name.given =>
                \E k \in DOMAIN sent'.data : sent'.data[k] = <<args.server_name.value>>
          /\ ~args.server_name.given =>
                \A k \in DOMAIN sent'.data :
                    \/ k \in {"pma_username", "pma_password"}
                    \/ \E j \in 1..Len(tree.forms) :
                          \E m \in 1..Len(tree.forms[j].inputs) :
                              /\ tree.forms[j].inputs[m].type = "hidden"
                              /\ tree.forms[j].inputs[m].name = k]_vars

\* C20 as claimed: whatever hidden inputs the forms carry, the login POST
\* sends pma_username and pma_password as the caller gave them, and the export
\* POST sends the caller's compression, what = sql, sql_structure_or_data =
\* structure_and_data and the computed selection as db_select[].
C20_CallerFieldsUnchanged ==
    [][/\ pc = "LoginPage" =>
             /\ sent'.data["pma_username"] = <<args.user>>
             /\ sent'.data["pma_password"] = <<args.password>>
       /\ (pc = "ExportPageLoaded" /\ HasDumpForm(tree)) =>
             /\ sent'.data["compression"] = <<args.compression>>
             /\ sent'.data["what"] = <<sql>>
             /\ sent'.data["sql_structure_or_data"] = <<structure_and_data>>
             /\ sent'.data["db_select[]"] =
                   Without(xpath_db_options(tree), ExcludedNames(args))]_vars

\* needle occurs in text as a run of consecutive characters
Infix(needle, text) ==
    \E i \in 1..(Len(text) - Len(needle) + 1) :
        SubSeq(text, i, i + Len(needle) - 1) = needle

\* C19 as claimed: whatever the server returns and whichever step fails, no
\* text that the program prints or raises contains the caller's password.
C19_PasswordNeverEchoed ==
    \A i \in 1..Len(echoed) : ~Infix(args.password, echoed[i])
=============================================================================
